---- MODULE Spec2Model ----
(***************************************************************************)
(* The training driver of the speaker-identification repository            *)
(* (train.py): main's epoch loop with its per-batch optimisation steps,    *)
(* evaluate, the checkpoint-on-improvement rule, the scheduler step, and   *)
(* the two-worker data loader iterator that feeds both loops.              *)
(*                                                                         *)
(* Numbers that are floats in the program (accuracies, the average loss)   *)
(* are exact fractions <<numerator, denominator>> here and are compared by *)
(* cross-multiplication.  The model covers runs whose evaluation set is    *)
(* non-empty, so that every accuracy is a number.                          *)
(***************************************************************************)
EXTENDS Integers, Sequences, FiniteSets

\* ---- bounds of the model ------------------------------------------------
MaxEpochs == 3
MaxTrainBatches == 2
MaxTestExamples == 2
MaxEvalExamples == 8
MaxEvalBatches == 2
MaxLoss == 1
MaxExamples == 4
MaxLength == 2
MaxBatchSize == 3

\* ---- program constants --------------------------------------------------
NumWorkers == 2
PrefetchFactor == 2

Classes == {0, 1}
CkptName == "best_model.pth"
None == "None"

VARIABLES
    epochs,         \* cfg.training["epochs"]
    eval_interval,  \* cfg.training["eval_interval"]
    train_len,      \* number of batches the training loader emits per pass
    test_sizes,     \* sizes of the batches the test loader emits per pass
    pc,             \* main's position
    range_pos,      \* number of iterations of the epoch loop started so far
    mode,           \* model.training: "train" or "eval"
    grad_enabled,   \* torch's gradient tracking switch
    params,         \* version of the model parameters (one per optimizer step)
    grads,          \* state of the gradient buffers
    it,             \* the live data loader iterator
    batch,          \* index, in sampler order, of the batch the loop body holds
    running_loss,   \* running_loss of the current epoch
    avg_loss,       \* avg_loss, the training loss last reported
    preds,          \* evaluate's preds
    labels,         \* evaluate's labels
    predicted,      \* evaluate's predicted for the current batch
    acc,            \* acc, the accuracy evaluate returned last
    best_acc,       \* best_acc
    files,          \* files under save_path: name -> saved parameters
    sched_steps,    \* number of scheduler.step() calls
    opt_steps,      \* number of optimizer.step() calls
    consumed,       \* history: batches the current loop has consumed, in order
    ops,            \* history: operations applied to the current training batch
    loss_sum,       \* history: sum of the losses of this epoch's batches
    eval_epochs,    \* history: 1-based numbers of the epochs that evaluated
    n_correct,      \* history: examples predicted correctly in this evaluation
    seen,           \* history: summary of the accuracies observed so far
    last,           \* history: summary of the latest evaluation
    ds_lengths,     \* sampler: length of each example of its dataset
    batch_size,     \* sampler: cfg.training["batch_size"]
    order,          \* sampler: the indices in the order of the current pass
    emitted,        \* sampler: the batches the current pass has yielded
    sampler_pc      \* sampler: position of the pass

vars == <<epochs, eval_interval, train_len, test_sizes, pc, range_pos, mode,
          grad_enabled, params, grads, it, batch, running_loss, avg_loss,
          preds, labels, predicted, acc, best_acc, files, sched_steps,
          opt_steps, consumed, ops, loss_sum, eval_epochs, n_correct, seen,
          last, ds_lengths, batch_size, order, emitted, sampler_pc>>

samplerVars == <<ds_lengths, batch_size, order, emitted, sampler_pc>>
cfgVars == <<epochs, eval_interval, train_len, test_sizes, samplerVars>>
mainVars == <<epochs, eval_interval, train_len, test_sizes, pc, range_pos,
              mode, grad_enabled, params, grads, it, batch, running_loss,
              avg_loss, preds, labels, predicted, acc, best_acc, files,
              sched_steps, opt_steps, consumed, ops, loss_sum, eval_epochs,
              n_correct, seen, last>>
modelVars == <<mode, grad_enabled, params, grads, opt_steps>>
trainVars == <<batch, running_loss, avg_loss>>
evalVars == <<preds, labels, predicted>>
ckptVars == <<acc, best_acc, files>>
histVars == <<consumed, ops, loss_sum, eval_epochs, n_correct, seen, last>>

\* ---- fractions ----------------------------------------------------------
Frac(n, d) == <<n, d>>

FracGt(a, b) == a[1] * b[2] > b[1] * a[2]

FracEq(a, b) == a[1] * b[2] = b[1] * a[2]

FracGe(a, b) == a[1] * b[2] >= b[1] * a[2]

\* ---- sequences ----------------------------------------------------------
RECURSIVE SumSeq(_)
SumSeq(s) == IF s = <<>> THEN 0 ELSE Head(s) + SumSeq(Tail(s))

\* all sequences over S of length lo..hi
SeqsOf(S, lo, hi) == UNION {[1..n -> S] : n \in lo..hi}

\* ---- the data loader iterator (DataLoader with num_workers=2) ------------
\* Batches are named by their position in the sampler's output, 0..n-1.
NoIter ==
    [n |-> 0, send_idx |-> 0, rcvd_idx |-> 0, tasks_outstanding |-> 0,
     worker_queue_idx |-> 1, index_queues |-> [w \in 1..NumWorkers |-> <<>>],
     data_queue |-> <<>>, task_info |-> {}]

\* hand the sampler's next batch to the next worker, round robin, while fewer
\* than PrefetchFactor * NumWorkers batches are outstanding
TryPutIndex(s) ==
    IF s.tasks_outstanding < PrefetchFactor * NumWorkers /\ s.send_idx < s.n
    THEN [s EXCEPT !.index_queues[s.worker_queue_idx] = Append(@, s.send_idx),
                   !.worker_queue_idx = (s.worker_queue_idx % NumWorkers) + 1,
                   !.tasks_outstanding = @ + 1,
                   !.send_idx = @ + 1]
    ELSE s

RECURSIVE Prime(_, _)
Prime(s, k) == IF k = 0 THEN s ELSE Prime(TryPutIndex(s), k - 1)

\* iter(loader): a fresh iterator over n batches, primed with the prefetch
NewIter(n) == Prime([NoIter EXCEPT !.n = n], PrefetchFactor * NumWorkers)

\* the iterator has handed out every batch
Exhausted(s) == s.rcvd_idx >= s.send_idx

\* the batch due next is already buffered in the main process
Buffered(s) == s.rcvd_idx \in s.task_info

\* hand the batch due next to the loop and refill the pipeline
ProcessData(s) == TryPutIndex([s EXCEPT !.rcvd_idx = @ + 1])

\* a worker finishes the batch at the head of its index queue
WorkerPut(s, w) ==
    [s EXCEPT !.index_queues[w] = Tail(@),
              !.data_queue = Append(@, Head(s.index_queues[w]))]


\* next(iterator), one pass of its receive loop:
\*   "stop"  the iterator is exhausted (StopIteration);
\*   "batch" the batch due next is handed to the loop;
\*   "stash" a batch that arrived ahead of its turn is buffered.
\* The receive blocks while no worker has delivered anything.
CanNext(s) == Exhausted(s) \/ Buffered(s) \/ s.data_queue # <<>>

\* NextData without the reorder buffer: whatever arrives first is handed
\* to the loop
NextData_Unordered(s) ==
    IF Exhausted(s)
    THEN [kind |-> "stop", data |-> s.rcvd_idx, iter |-> NoIter]
    ELSE [kind |-> "batch", data |-> Head(s.data_queue),
          iter |-> ProcessData([s EXCEPT !.data_queue = Tail(@),
                                         !.tasks_outstanding = @ - 1])]

NextData(s) ==
    IF Exhausted(s)
    THEN [kind |-> "stop", data |-> s.rcvd_idx, iter |-> NoIter]
    ELSE IF Buffered(s)
    THEN [kind |-> "batch", data |-> s.rcvd_idx,
          iter |-> ProcessData([s EXCEPT !.task_info = @ \ {s.rcvd_idx}])]
    ELSE IF Head(s.data_queue) = s.rcvd_idx
    THEN [kind |-> "batch", data |-> Head(s.data_queue),
          iter |-> ProcessData([s EXCEPT !.data_queue = Tail(@),
                                         !.tasks_outstanding = @ - 1])]
    ELSE [kind |-> "stash", data |-> Head(s.data_queue),
          iter |-> [s EXCEPT !.data_queue = Tail(@),
                             !.tasks_outstanding = @ - 1,
                             !.task_info = @ \cup {Head(s.data_queue)}]]

\* ---- the test set -------------------------------------------------------
\* sequences of at most maxb positive batch sizes with at most max examples
\* in all
Compositions(max, maxb) ==
    {s \in SeqsOf(1..max, 1, maxb) : SumSeq(s) <= max}

\* number of examples in the test batches before batch b (b counts from 0)
Offset(b) == SumSeq(SubSeq(test_sizes, 1, b))

\* lbls of test batch b: the true label of each of its examples
LabelsOf(b) == [i \in 1..test_sizes[b + 1] |-> (Offset(b) + i) % 2]

\* number of positions at which two equally long sequences agree
Matches(a, b) == Cardinality({i \in 1..Len(a) : a[i] = b[i]})

\* sklearn's accuracy_score: the fraction of positions where y_pred = y_true
accuracy_score(y_true, y_pred) == Frac(Matches(y_true, y_pred), Len(y_true))

\* Extend as an assignment: the list keeps the last batch only
Extend_Assign(list, items) == items

\* list.extend
Extend(list, items) == list \o items

\* ---- main ---------------------------------------------------------------
\* the loop variable of "for epoch in range(epochs)" inside the loop body
epoch == range_pos - 1

NoSeen == [any |-> FALSE, max |-> Frac(0, 1), params |-> 0]
NoLast == [epoch |-> 0, beats_all |-> FALSE, wrote |-> FALSE]

\* the sampler before any pass over it
SamplerIdle ==
    /\ ds_lengths = <<>>
    /\ batch_size = 1
    /\ order = <<>>
    /\ emitted = <<>>
    /\ sampler_pc = "idle"

\* main after the set-up of lines 43-72, about to enter the epoch loop
MainStart ==
    /\ pc = "for_epoch"
    /\ range_pos = 0
    /\ mode = "train"
    /\ grad_enabled = TRUE
    /\ params = 0
    /\ grads = "none"
    /\ it = NoIter
    /\ batch = None
    /\ running_loss = None
    /\ avg_loss = None
    /\ preds = None
    /\ labels = None
    /\ predicted = None
    /\ acc = None
    /\ best_acc = Frac(0, 1)
    /\ files = <<>>
    /\ sched_steps = 0
    /\ opt_steps = 0
    /\ consumed = <<>>
    /\ ops = <<>>
    /\ loss_sum = 0
    /\ eval_epochs = {}
    /\ n_correct = 0
    /\ seen = NoSeen
    /\ last = NoLast

Init ==
    /\ epochs \in 0..MaxEpochs
    /\ eval_interval \in 1..(MaxEpochs + 1)
    /\ train_len \in 0..MaxTrainBatches
    /\ test_sizes \in Compositions(MaxTestExamples, MaxTestExamples)
    /\ MainStart
    /\ SamplerIdle

\* EpochBegin over range(epochs + 1): one iteration too many
EpochBegin_OneMore ==
    /\ pc = "for_epoch"
    /\ range_pos <= epochs
    /\ range_pos' = range_pos + 1
    /\ mode' = "train"
    /\ running_loss' = 0
    /\ it' = NewIter(train_len)
    /\ pc' = "train_next"
    /\ consumed' = <<>>
    /\ ops' = <<>>
    /\ loss_sum' = 0
    /\ UNCHANGED <<cfgVars, grad_enabled, params, grads, opt_steps, batch,
                   avg_loss, evalVars, ckptVars, sched_steps, eval_epochs,
                   n_correct, seen, last>>

\* EpochBegin without model.train(): the mode is whatever it was left in
EpochBegin_NoTrainMode ==
    /\ pc = "for_epoch"
    /\ range_pos < epochs
    /\ range_pos' = range_pos + 1
    /\ running_loss' = 0
    /\ it' = NewIter(train_len)
    /\ pc' = "train_next"
    /\ consumed' = <<>>
    /\ ops' = <<>>
    /\ loss_sum' = 0
    /\ UNCHANGED <<cfgVars, mode, grad_enabled, params, grads, opt_steps,
                   batch, avg_loss, evalVars, ckptVars, sched_steps,
                   eval_epochs, n_correct, seen, last>>

\* lines 74-77: the loop takes its next epoch, puts the model in training
\* mode, resets running_loss and opens an iterator over the training loader
EpochBegin ==
    /\ pc = "for_epoch"
    /\ range_pos < epochs
    /\ range_pos' = range_pos + 1
    /\ mode' = "train"
    /\ running_loss' = 0
    /\ it' = NewIter(train_len)
    /\ pc' = "train_next"
    /\ consumed' = <<>>
    /\ ops' = <<>>
    /\ loss_sum' = 0
    /\ UNCHANGED <<cfgVars, grad_enabled, params, grads, opt_steps, batch,
                   avg_loss, evalVars, ckptVars, sched_steps, eval_epochs,
                   n_correct, seen, last>>

\* line 74: range(epochs) is exhausted and main returns
LoopExit ==
    /\ pc = "for_epoch"
    /\ range_pos >= epochs
    /\ pc' = "done"
    /\ UNCHANGED <<cfgVars, range_pos, modelVars, it, trainVars, evalVars,
                   ckptVars, sched_steps, histVars>>

\* a loader worker process collates one batch and puts it on the data queue
Worker(w) ==
    /\ it.index_queues[w] # <<>>
    /\ it' = WorkerPut(it, w)
    /\ UNCHANGED <<cfgVars, pc, range_pos, modelVars, trainVars, evalVars,
                   ckptVars, sched_steps, histVars>>

\* lines 77-78: the training loop receives from the loader
TrainNext ==
    /\ pc = "train_next"
    /\ CanNext(it)
    /\ LET r == NextData(it) IN
        /\ it' = r.iter
        /\ pc' = CASE r.kind = "stop" -> "avg_loss"
                   [] r.kind = "batch" -> "zero_grad"
                   [] r.kind = "stash" -> "train_next"
        /\ batch' = IF r.kind = "batch" THEN r.data ELSE batch
        /\ consumed' = IF r.kind = "batch" THEN Append(consumed, r.data)
                       ELSE consumed
        /\ ops' = IF r.kind = "batch" THEN <<>> ELSE ops
    /\ UNCHANGED <<cfgVars, range_pos, modelVars, running_loss, avg_loss,
                   evalVars, ckptVars, sched_steps, loss_sum, eval_epochs,
                   n_correct, seen, last>>

\* line 79: optimizer.zero_grad()
ZeroGrad ==
    /\ pc = "zero_grad"
    /\ grads' = "zero"
    /\ pc' = "forward"
    /\ ops' = Append(ops, "zero_grad")
    /\ UNCHANGED <<cfgVars, range_pos, mode, grad_enabled, params, opt_steps,
                   it, trainVars, evalVars, ckptVars, sched_steps, consumed,
                   loss_sum, eval_epochs, n_correct, seen, last>>

\* lines 80-81: the forward pass with labels, and the loss
Forward ==
    /\ pc = "forward"
    /\ pc' = "backward"
    /\ ops' = Append(ops, "forward")
    /\ UNCHANGED <<cfgVars, range_pos, modelVars, it, trainVars, evalVars,
                   ckptVars, sched_steps, consumed, loss_sum, eval_epochs,
                   n_correct, seen, last>>

\* line 82: loss.backward() fills the gradient buffers
Backward ==
    /\ pc = "backward"
    /\ grads' = "computed"
    /\ pc' = "opt_step"
    /\ ops' = Append(ops, "backward")
    /\ UNCHANGED <<cfgVars, range_pos, mode, grad_enabled, params, opt_steps,
                   it, trainVars, evalVars, ckptVars, sched_steps, consumed,
                   loss_sum, eval_epochs, n_correct, seen, last>>

\* line 83: optimizer.step() writes the model parameters
OptimizerStep ==
    /\ pc = "opt_step"
    /\ params' = params + 1
    /\ opt_steps' = opt_steps + 1
    /\ pc' = "accumulate"
    /\ ops' = Append(ops, "step")
    /\ UNCHANGED <<cfgVars, range_pos, mode, grad_enabled, grads, it,
                   trainVars, evalVars, ckptVars, sched_steps, consumed,
                   loss_sum, eval_epochs, n_correct, seen, last>>

\* AccumulateLoss with "=" for "+=": running_loss is the last batch's loss
AccumulateLoss_Assign ==
    /\ pc = "accumulate"
    /\ \E l \in 0..MaxLoss :
        /\ running_loss' = l
        /\ loss_sum' = loss_sum + l
    /\ pc' = "train_next"
    /\ UNCHANGED <<cfgVars, range_pos, modelVars, it, batch, avg_loss,
                   evalVars, ckptVars, sched_steps, consumed, ops,
                   eval_epochs, n_correct, seen, last>>

\* line 84: running_loss += loss.item(); the value of the loss is read here
AccumulateLoss ==
    /\ pc = "accumulate"
    /\ \E l \in 0..MaxLoss :
        /\ running_loss' = running_loss + l
        /\ loss_sum' = loss_sum + l
    /\ pc' = "train_next"
    /\ UNCHANGED <<cfgVars, range_pos, modelVars, it, batch, avg_loss,
                   evalVars, ckptVars, sched_steps, consumed, ops,
                   eval_epochs, n_correct, seen, last>>

\* lines 86-87: the epoch's mean loss; dividing by len(train_loader) = 0
\* raises ZeroDivisionError, which nothing catches
ReportLoss ==
    /\ pc = "avg_loss"
    /\ IF train_len = 0
       THEN pc' = "raised" /\ UNCHANGED avg_loss
       ELSE pc' = "eval_check" /\ avg_loss' = Frac(running_loss, train_len)
    /\ UNCHANGED <<cfgVars, range_pos, modelVars, it, batch, running_loss,
                   evalVars, ckptVars, sched_steps, histVars>>

\* EvalCheck on the 0-based epoch
EvalCheck_ZeroBased ==
    /\ pc = "eval_check"
    /\ pc' = IF epoch % eval_interval = 0 THEN "evaluate" ELSE "sched_step"
    /\ UNCHANGED <<cfgVars, range_pos, modelVars, it, trainVars, evalVars,
                   ckptVars, sched_steps, histVars>>

\* line 89: is this an evaluation epoch?
EvalCheck ==
    /\ pc = "eval_check"
    /\ pc' = IF (epoch + 1) % eval_interval = 0 THEN "evaluate"
             ELSE "sched_step"
    /\ UNCHANGED <<cfgVars, range_pos, modelVars, it, trainVars, evalVars,
                   ckptVars, sched_steps, histVars>>

\* ---- evaluate -----------------------------------------------------------
\* lines 30-34: evaluate is entered: model.eval(), empty preds and labels,
\* gradient tracking off, and an iterator over the test loader
EvaluateBegin ==
    /\ pc = "evaluate"
    /\ mode' = "eval"
    /\ preds' = <<>>
    /\ labels' = <<>>
    /\ grad_enabled' = FALSE
    /\ it' = NewIter(Len(test_sizes))
    /\ pc' = "eval_next"
    /\ consumed' = <<>>
    /\ n_correct' = 0
    /\ eval_epochs' = eval_epochs \cup {epoch + 1}
    /\ UNCHANGED <<cfgVars, range_pos, params, grads, opt_steps, trainVars,
                   predicted, ckptVars, sched_steps, ops, loss_sum, seen,
                   last>>

\* lines 34-35: the evaluation loop receives from the loader; when the loader
\* is exhausted the no_grad block is left and gradient tracking is restored
EvalNext ==
    /\ pc = "eval_next"
    /\ CanNext(it)
    /\ LET r == NextData(it) IN
        /\ it' = r.iter
        /\ pc' = CASE r.kind = "stop" -> "eval_return"
                   [] r.kind = "batch" -> "eval_forward"
                   [] r.kind = "stash" -> "eval_next"
        /\ batch' = IF r.kind = "batch" THEN r.data ELSE batch
        /\ consumed' = IF r.kind = "batch" THEN Append(consumed, r.data)
                       ELSE consumed
        /\ grad_enabled' = IF r.kind = "stop" THEN TRUE ELSE grad_enabled
    /\ UNCHANGED <<cfgVars, range_pos, mode, params, grads, opt_steps,
                   running_loss, avg_loss, evalVars, ckptVars, sched_steps,
                   ops, loss_sum, eval_epochs, n_correct, seen, last>>

\* lines 36-37: the forward pass without labels and the arg-max class of
\* each example of the batch
EvalForward ==
    /\ pc = "eval_forward"
    /\ \E p \in [1..test_sizes[batch + 1] -> Classes] :
        /\ predicted' = p
        /\ n_correct' = n_correct + Matches(LabelsOf(batch), p)
    /\ pc' = "eval_extend"
    /\ UNCHANGED <<cfgVars, range_pos, modelVars, it, trainVars, preds,
                   labels, ckptVars, sched_steps, consumed, ops, loss_sum,
                   eval_epochs, seen, last>>

\* lines 38-39: preds.extend(predicted), labels.extend(lbls)
EvalExtend ==
    /\ pc = "eval_extend"
    /\ preds' = Extend(preds, predicted)
    /\ labels' = Extend(labels, LabelsOf(batch))
    /\ pc' = "eval_next"
    /\ UNCHANGED <<cfgVars, range_pos, modelVars, it, trainVars, predicted,
                   ckptVars, sched_steps, histVars>>

\* lines 40 and 90: evaluate returns the accuracy to main, which binds acc;
\* evaluate's locals are gone
EvalReturn ==
    /\ pc = "eval_return"
    /\ acc' = accuracy_score(labels, preds)
    /\ preds' = None
    /\ labels' = None
    /\ predicted' = None
    /\ pc' = "compare"
    /\ last' = [epoch |-> epoch + 1,
                beats_all |-> seen.any => FracGt(acc', seen.max),
                wrote |-> FALSE]
    /\ seen' = IF ~seen.any \/ FracGt(acc', seen.max)
               THEN [any |-> TRUE, max |-> acc', params |-> params]
               ELSE seen
    /\ UNCHANGED <<cfgVars, range_pos, modelVars, it, trainVars, best_acc,
                   files, sched_steps, consumed, ops, loss_sum, eval_epochs,
                   n_correct>>

\* evaluate called on its own: any test loader of up to MaxEvalBatches
\* batches and MaxEvalExamples examples
EvalInit ==
    /\ test_sizes \in Compositions(MaxEvalExamples, MaxEvalBatches)
    /\ epochs = 1
    /\ eval_interval = 1
    /\ train_len = 1
    /\ pc = "evaluate"
    /\ range_pos = 1
    /\ mode = "train"
    /\ grad_enabled = TRUE
    /\ params = 1
    /\ grads = "computed"
    /\ it = NoIter
    /\ batch = 0
    /\ running_loss = 0
    /\ avg_loss = Frac(0, 1)
    /\ preds = None
    /\ labels = None
    /\ predicted = None
    /\ acc = None
    /\ best_acc = Frac(0, 1)
    /\ files = <<>>
    /\ sched_steps = 0
    /\ opt_steps = 1
    /\ consumed = <<0>>
    /\ ops = <<"zero_grad", "forward", "backward", "step">>
    /\ loss_sum = 0
    /\ eval_epochs = {}
    /\ n_correct = 0
    /\ seen = NoSeen
    /\ last = NoLast
    /\ SamplerIdle

EvalNextStep ==
    \/ EvaluateBegin
    \/ \E w \in 1..NumWorkers : Worker(w)
    \/ EvalNext
    \/ EvalForward
    \/ EvalExtend
    \/ EvalReturn

SpecEval == EvalInit /\ [][EvalNextStep]_vars

\* ---- checkpoint and scheduler --------------------------------------------
\* Compare with ">=" for ">": a tie counts as an improvement
Compare_Ge ==
    /\ pc = "compare"
    /\ IF FracGe(acc, best_acc)
       THEN best_acc' = acc /\ pc' = "save"
       ELSE UNCHANGED best_acc /\ pc' = "sched_step"
    /\ UNCHANGED <<cfgVars, range_pos, modelVars, it, trainVars, evalVars,
                   acc, files, sched_steps, histVars>>

\* Compare without "best_acc = acc": the best accuracy is never recorded
Compare_ForgetsBest ==
    /\ pc = "compare"
    /\ pc' = IF FracGt(acc, best_acc) THEN "save" ELSE "sched_step"
    /\ UNCHANGED <<cfgVars, range_pos, modelVars, it, trainVars, evalVars,
                   acc, best_acc, files, sched_steps, histVars>>

\* lines 91-93: a strictly better accuracy becomes best_acc
Compare ==
    /\ pc = "compare"
    /\ IF FracGt(acc, best_acc)
       THEN best_acc' = acc /\ pc' = "save"
       ELSE UNCHANGED best_acc /\ pc' = "sched_step"
    /\ UNCHANGED <<cfgVars, range_pos, modelVars, it, trainVars, evalVars,
                   acc, files, sched_steps, histVars>>

\* the file system after writing content under name (an existing file of
\* that name is replaced)
WriteFile(fs, name, content) ==
    [f \in DOMAIN fs \cup {name} |-> IF f = name THEN content ELSE fs[f]]

\* the file name torch.save writes to
SavePath == CkptName

\* lines 94-95: torch.save(model.state_dict(), save_path/best_model.pth)
Save ==
    /\ pc = "save"
    /\ files' = WriteFile(files, SavePath, params)
    /\ pc' = "sched_step"
    /\ last' = [last EXCEPT !.wrote = TRUE]
    /\ UNCHANGED <<cfgVars, range_pos, modelVars, it, trainVars, evalVars,
                   acc, best_acc, sched_steps, consumed, ops, loss_sum,
                   eval_epochs, n_correct, seen>>

\* SchedulerStep indented into the evaluation branch: epochs that do not
\* evaluate do not step the scheduler
SchedulerStep_InsideIf ==
    /\ pc = "sched_step"
    /\ sched_steps' = IF range_pos \in eval_epochs THEN sched_steps + 1
                      ELSE sched_steps
    /\ pc' = "for_epoch"
    /\ UNCHANGED <<cfgVars, range_pos, modelVars, it, trainVars, evalVars,
                   ckptVars, histVars>>

\* line 97: scheduler.step(), the last statement of the loop body
SchedulerStep ==
    /\ pc = "sched_step"
    /\ sched_steps' = sched_steps + 1
    /\ pc' = "for_epoch"
    /\ UNCHANGED <<cfgVars, range_pos, modelVars, it, trainVars, evalVars,
                   ckptVars, histVars>>

Next ==
    \/ EpochBegin
    \/ LoopExit
    \/ \E w \in 1..NumWorkers : Worker(w)
    \/ TrainNext
    \/ ZeroGrad
    \/ Forward
    \/ Backward
    \/ OptimizerStep
    \/ AccumulateLoss
    \/ ReportLoss
    \/ EvalCheck
    \/ EvaluateBegin
    \/ EvalNext
    \/ EvalForward
    \/ EvalExtend
    \/ EvalReturn
    \/ Compare
    \/ Save
    \/ SchedulerStep

Spec == Init /\ [][Next]_vars

\* ---- the length-aware batch sampler (FixedLengthBatchSampler) -----------
\* Examples are named 0..N-1; ds_lengths[i + 1] is the length of example i.

\* put example i into a list sorted by length, behind the examples that are
\* no longer than it
InsertByLength(sorted, i, lens) ==
    LET pos == Cardinality({j \in 1..Len(sorted) :
                               lens[sorted[j] + 1] <= lens[i + 1]})
    IN SubSeq(sorted, 1, pos) \o <<i>> \o SubSeq(sorted, pos + 1, Len(sorted))

\* the examples 0..k-1 sorted by length
RECURSIVE SortByLength(_, _)
SortByLength(lens, k) ==
    IF k = 0 THEN <<>>
    ELSE InsertByLength(SortByLength(lens, k - 1), k - 1, lens)

Min(a, b) == IF a < b THEN a ELSE b

\* the batch that starts behind the first `start` examples of the order
Chunk(ord, start, size) == SubSeq(ord, start + 1, Min(start + size, Len(ord)))

\* HasChunk with drop_last: only full batches are yielded
HasChunk_DropLast(ord, start, size) == start + size <= Len(ord)

\* is there a batch left behind the first `start` examples?
HasChunk(ord, start, size) == start < Len(ord)

\* a pass over the sampler begins: the examples are ordered by length
SamplerIter ==
    /\ sampler_pc \in {"idle", "stop"}
    /\ order' = SortByLength(ds_lengths, Len(ds_lengths))
    /\ emitted' = <<>>
    /\ sampler_pc' = "yield"
    /\ UNCHANGED <<ds_lengths, batch_size, mainVars>>

\* the pass yields its next batch of at most batch_size examples
SamplerYield ==
    /\ sampler_pc = "yield"
    /\ HasChunk(order, Len(emitted) * batch_size, batch_size)
    /\ emitted' = Append(emitted,
                         Chunk(order, Len(emitted) * batch_size, batch_size))
    /\ UNCHANGED <<ds_lengths, batch_size, order, sampler_pc, mainVars>>

\* the pass ends when no example is left
SamplerStop ==
    /\ sampler_pc = "yield"
    /\ ~HasChunk(order, Len(emitted) * batch_size, batch_size)
    /\ sampler_pc' = "stop"
    /\ UNCHANGED <<ds_lengths, batch_size, order, emitted, mainVars>>

SamplerInit ==
    /\ ds_lengths \in SeqsOf(1..MaxLength, 0, MaxExamples)
    /\ batch_size \in 1..MaxBatchSize
    /\ order = <<>>
    /\ emitted = <<>>
    /\ sampler_pc = "idle"
    /\ epochs = 0
    /\ eval_interval = 1
    /\ train_len = 0
    /\ test_sizes = <<1>>
    /\ MainStart

SamplerNext == SamplerIter \/ SamplerYield \/ SamplerStop

SpecSampler == SamplerInit /\ [][SamplerNext]_vars

\* ---- properties ---------------------------------------------------------
Zero == Frac(0, 1)

\* main is between the statements of one training batch
TrainPcs == {"zero_grad", "forward", "backward", "opt_step", "accumulate"}

\* main is inside evaluate
EvalPcs == {"eval_next", "eval_forward", "eval_extend", "eval_return"}

\* main is inside the body of the epoch loop
BodyPcs == {"train_next", "avg_loss", "eval_check", "evaluate", "compare",
            "save", "sched_step", "raised"} \cup TrainPcs \cup EvalPcs

\* the checkpoint decision of this epoch's evaluation has been carried out
Decided == pc = "sched_step" /\ last.epoch = range_pos

\* <<0, 1, ..., k-1>>
UpTo(k) == [i \in 1..k |-> i - 1]

\* C1 as stated: once the decision of an evaluation is carried out, the
\* checkpoint was written if and only if the evaluation's accuracy is
\* strictly greater than every earlier validation accuracy of the run, so
\* that a first evaluation always writes.
C1_WriteIffBeatsAllPrevious == Decided => (last.wrote <=> last.beats_all)

\* C1 amended: the checkpoint is written after an evaluation if and only if
\* its accuracy is strictly greater than 0.0 and than every earlier
\* validation accuracy of the run; the write puts the current parameters
\* into best_model.pth.
C1_WriteIffBeatsAllAndZero ==
    Decided =>
        /\ last.wrote <=> (last.beats_all /\ FracGt(acc, Zero))
        /\ last.wrote => DOMAIN files = {CkptName} /\ files[CkptName] = params

\* a third evaluation ties with the best accuracy and is not written
C1_Witness ==
    /\ Decided
    /\ Cardinality(eval_epochs) = 3
    /\ FracEq(acc, best_acc)
    /\ FracGt(acc, Zero)
    /\ ~last.wrote
    /\ files # <<>>

\* C2: the scheduler is stepped once per epoch, as the last thing the epoch
\* does: inside the body of the k-th epoch it has been stepped k-1 times,
\* whether or not the epoch evaluates, and between epochs and at the end it
\* has been stepped once for each epoch begun.
C2_SchedulerOncePerEpoch ==
    /\ pc \in BodyPcs => sched_steps = range_pos - 1
    /\ pc \in {"for_epoch", "done"} => sched_steps = range_pos
    /\ pc = "done" => sched_steps = epochs

\* two epochs have completed without any evaluation
C2_Witness ==
    /\ pc = "for_epoch"
    /\ range_pos = 2
    /\ eval_epochs = {}
    /\ sched_steps = 2

\* C3: evaluate returns the number of correctly predicted examples of all
\* batches over the number of all examples.
C3_AccuracyIsExampleWeighted ==
    pc = "compare" => acc = Frac(n_correct, SumSeq(test_sizes))

\* batches of sizes 3 and 5 with four of the eight examples correct: the
\* result is 4/8 = 0.5, which no mean of the two batch accuracies equals
C3_Witness ==
    /\ pc = "compare"
    /\ test_sizes = <<3, 5>>
    /\ acc = Frac(4, 8)
    /\ FracEq(acc, Frac(1, 2))
    /\ it = NoIter

\* C4: only epochs whose 1-based number is a multiple of eval_interval
\* evaluate, every such epoch that gets to its end has evaluated, evaluate
\* starts after all training batches of the epoch, and a write happens only
\* in an evaluating epoch (so never when eval_interval > epochs).
C4_EvalEveryInterval ==
    /\ \A e \in eval_epochs : e % eval_interval = 0
    /\ \A e \in 1..range_pos :
        (e % eval_interval = 0 /\ (e < range_pos \/ pc = "sched_step"))
            => e \in eval_epochs
    /\ pc \in EvalPcs =>
        /\ range_pos \in eval_epochs
        /\ opt_steps = range_pos * train_len
    /\ pc = "save" => range_pos \in eval_epochs
    /\ files # <<>> => eval_epochs # {}
    /\ eval_interval > epochs => eval_epochs = {} /\ files = <<>>

\* three epochs with eval_interval 2: only the second evaluated
C4_Witness ==
    /\ pc = "done"
    /\ epochs = 3
    /\ eval_interval = 2
    /\ eval_epochs = {2}
    /\ train_len = 2

\* C5: every training batch is consumed once, in each epoch; a batch gets
\* zero_grad, forward, backward, step in that order; k epochs over M
\* batches take k*M optimizer steps; the reported loss is the sum of the
\* epoch's batch losses over M.
C5_TrainEpoch ==
    /\ pc \in TrainPcs \cup {"train_next"} => consumed = UpTo(Len(consumed))
    /\ pc = "avg_loss" => consumed = UpTo(train_len)
    /\ pc = "accumulate" => ops = <<"zero_grad", "forward", "backward", "step">>
    /\ pc \in TrainPcs \cup {"train_next"} =>
        opt_steps = (range_pos - 1) * train_len + Len(consumed)
                        - (IF pc \in TrainPcs \ {"accumulate"} THEN 1 ELSE 0)
    /\ pc \in {"for_epoch", "done"} => opt_steps = range_pos * train_len
    /\ pc = "eval_check" => avg_loss = Frac(loss_sum, train_len)

\* the second epoch over two batches reports a mean loss of 1/2
C5_Witness ==
    /\ pc = "eval_check"
    /\ range_pos = 2
    /\ train_len = 2
    /\ opt_steps = 4
    /\ avg_loss = Frac(1, 2)

\* main has stopped for good at DONE: exactly `epochs` iterations, each
\* with its training batches and scheduler step, and nothing left to do
AtDone ==
    pc = "done" =>
        /\ range_pos = epochs
        /\ sched_steps = epochs
        /\ opt_steps = epochs * train_len
        /\ Cardinality(eval_epochs) <= epochs
        /\ ~ENABLED Next

\* C6 as stated: for all epochs, eval_interval and loaders main keeps going
\* until it is at DONE, where `epochs` iterations lie behind it and nothing
\* more happens.
C6_AlwaysReachesDone == (pc = "done" \/ ENABLED Next) /\ AtDone

\* C6 amended: main keeps going until DONE when the training loader emits
\* at least one batch or epochs = 0; with epochs >= 1 and a training loader
\* without batches it stops in the first epoch at the division by
\* len(train_loader), before any evaluation, scheduler step or write. At
\* DONE `epochs` iterations lie behind it and nothing more happens.
C6_ReachesDoneUnlessNoBatches ==
    /\ (train_len >= 1 \/ epochs = 0) => (pc = "done" \/ ENABLED Next)
    /\ pc = "raised" =>
        /\ train_len = 0 /\ epochs >= 1 /\ range_pos = 1
        /\ sched_steps = 0 /\ eval_epochs = {} /\ files = <<>>
        /\ ~ENABLED Next
    /\ AtDone

\* main is one sequential thread and the loader workers are processes of
\* their own: whatever can take a step eventually does
FairSpec == Spec /\ WF_vars(Next)

\* C6, as a liveness property of FairSpec: with a training batch to process
\* (or no epoch to run) main does get to DONE
C6_EventuallyDone == (train_len >= 1 \/ epochs = 0) => <>(pc = "done")

\* at DONE the parameters are newer than the checkpoint on disk
C6_Witness ==
    /\ pc = "done"
    /\ epochs = 3
    /\ CkptName \in DOMAIN files
    /\ files[CkptName] < params

\* C8: under every interleaving of the two loader workers both loops consume
\* the batches in the sampler's order, each once, and the parameters are
\* written by nothing but the optimizer steps of the main loop.
C8_InOrderSingleWriter ==
    /\ consumed = UpTo(Len(consumed))
    /\ pc = "avg_loss" => consumed = UpTo(train_len)
    /\ pc = "eval_return" => consumed = UpTo(Len(test_sizes))
    /\ pc \in TrainPcs \cup {"eval_forward", "eval_extend"} =>
        batch = Len(consumed) - 1
    /\ params = opt_steps

\* the second batch has arrived before the first and is held back
C8_Witness ==
    /\ pc = "train_next"
    /\ it.rcvd_idx = 0
    /\ it.task_info = {1}
    /\ consumed = <<>>

\* C9: training batches run in training mode with gradient tracking on;
\* evaluation batches run in evaluation mode with gradient tracking off;
\* evaluate takes no optimizer step and leaves the parameters, best_acc and
\* the scheduler as they were when it was entered.
C9_ModesAndEvaluateIsReadOnly ==
    /\ pc \in TrainPcs \cup {"train_next"} => mode = "train" /\ grad_enabled
    /\ pc \in {"eval_forward", "eval_extend"} =>
        mode = "eval" /\ ~grad_enabled
    /\ pc \in EvalPcs \cup {"compare"} =>
        /\ opt_steps = range_pos * train_len
        /\ params = range_pos * train_len
        /\ sched_steps = range_pos - 1
    /\ pc \in EvalPcs =>
        best_acc = IF seen.any /\ FracGt(seen.max, Zero) THEN seen.max ELSE Zero

\* a training batch of the epoch that follows an evaluating epoch
C9_Witness ==
    /\ pc = "forward"
    /\ range_pos - 1 \in eval_epochs
    /\ mode = "train"
    /\ grad_enabled

\* the largest of 0.0 and the accuracies observed so far
MaxSeen == IF seen.any /\ FracGt(seen.max, Zero) THEN seen.max ELSE Zero

C10_State ==
    /\ pc # "compare" => FracEq(best_acc, MaxSeen)
    /\ Cardinality(DOMAIN files) <= 1
    /\ (files # <<>> /\ pc \notin {"compare", "save"}) =>
        /\ DOMAIN files = {CkptName}
        /\ seen.any
        /\ FracEq(seen.max, best_acc)
        /\ files[CkptName] = seen.params

C7_SamplerPartitions ==
    LET N == Len(ds_lengths)
        Occurrences(i) ==
            Cardinality({<<k, j>> \in (1..Len(emitted)) \X (1..batch_size) :
                            j <= Len(emitted[k]) /\ emitted[k][j] = i})
    IN /\ \A k \in 1..Len(emitted) :
            /\ Len(emitted[k]) \in 1..batch_size
            /\ k < Len(emitted) => Len(emitted[k]) = batch_size
            /\ \A j \in 1..Len(emitted[k]) : emitted[k][j] \in 0..(N - 1)
       /\ \A i \in 0..(N - 1) : Occurrences(i) <= 1
       /\ sampler_pc = "stop" => \A i \in 0..(N - 1) : Occurrences(i) = 1

\* four examples in batches of three: a full batch and a remainder of one
C7_Witness ==
    /\ sampler_pc = "stop"
    /\ Len(ds_lengths) = 4
    /\ batch_size = 3
    /\ Len(emitted) = 2
    /\ Len(emitted[2]) = 1
    /\ order # UpTo(4)

====
